---- MODULE Spec2Model ----
(***************************************************************************)
(* DXF -> KML converter (src/app.py): the geometry helpers and the entity  *)
(* loop, as a state machine.                                               *)
(*                                                                         *)
(* Numbers.  Drawing coordinates are integers counted in units of half the *)
(* closure tolerance (0.5e-6 drawing units), so the tolerance 1e-6 of      *)
(* is_closed_lwpoly is Eps = 2 and differences below, at and above it all  *)
(* occur.  Angles are whole degrees; the step (end - start) / segments is  *)
(* kept as an exact fraction.  A coordinate cx + r*cos(a) or cx + r*sin(a) *)
(* is kept symbolically with the angle reduced modulo 360 degrees, so two  *)
(* such coordinates are equal exactly when centre, radius and angle (mod   *)
(* 360) agree; floating-point rounding is not modelled.  The projection    *)
(* transformer.transform(x, y) is an uninterpreted function of (x, y).     *)
(***************************************************************************)
EXTENDS Integers, Sequences, FiniteSets

VARIABLES include_layers, approx_segments, msp, layer_whitelist, i, kml,
          count, skipped, pc, details, call

\* include_layers    the layer filter text (line 87)
\* approx_segments   the curve approximation segments (line 88)
\* msp               the entities of the modelspace, in order (line 101)
\* layer_whitelist   None or the set of layer names (lines 107-109)
\* i                 the number of entities the loop has visited (line 132)
\* kml               the features added to the document, in order (line 119)
\* count             the four counters (line 126)
\* skipped           the positions of the entities warned about (line 200)
\* pc                where the script is: "filter", "loop", "done"; "call" and
\*                   "returned" around a helper called on its own
\* details           the layer filter the details report (line 214)
\* call              a helper call: its arguments and what it returned
vars == <<include_layers, approx_segments, msp, layer_whitelist, i, kml,
          count, skipped, pc, details, call>>

\* the variables of the run other than its position
runVars == <<include_layers, approx_segments, msp, layer_whitelist, i, kml,
             count, skipped, details>>

(***************************************************************************)
(* Bounds of the model.                                                    *)
(***************************************************************************)
MaxEntities == 2
MaxVerts == 3
MaxSeg == 4

(***************************************************************************)
(* Numbers                                                                 *)
(***************************************************************************)
Abs(a) == IF a < 0 THEN -a ELSE a

Max(a, b) == IF a < b THEN b ELSE a

RECURSIVE GCD(_, _)
GCD(a, b) == IF b = 0 THEN a ELSE GCD(b, a % b)

\* a plain coordinate value
Num(v) == [c |-> v, r |-> 0, fn |-> "id", num |-> 0, den |-> 1]

\* the fraction num/den (den > 0) in lowest terms
Frac(num, den) ==
  LET g == GCD(Abs(num), den)
  IN  [num |-> num \div g, den |-> den \div g]

\* c + r * fn(math.radians(num/den)), fn cos or sin, the angle taken mod 360
Trig(c, r, fn, num, den) ==
  LET a == Frac(num % (360 * den), den)
  IN  [c |-> c, r |-> r, fn |-> fn, num |-> a.num, den |-> a.den]

Eps == 2

\* the coordinates outside ProjDomain are those the projection rejects
ProjDomain == 0 .. 3

(***************************************************************************)
(* Helpers (src/app.py 22-58)                                              *)
(***************************************************************************)
\* transformer.transform(x, y): (lon, lat)
Transform(p) ==
  <<[axis |-> "lon", x |-> p[1], y |-> p[2]],
    [axis |-> "lat", x |-> p[1], y |-> p[2]]>>

\* transformer.transform raises on this vertex
TransformFails(p) == p[1].fn = "id" /\ p[1].c \notin ProjDomain

transform_xy_list_rev(xy) ==
  IF \E j \in 1 .. Len(xy) : TransformFails(xy[j])
    THEN [raised |-> TRUE, out |-> <<>>]
    ELSE [raised |-> FALSE,
          out |-> [j \in 1 .. Len(xy) |-> Transform(xy[Len(xy) + 1 - j])]]

transform_xy_list(xy) ==
  IF \E j \in 1 .. Len(xy) : TransformFails(xy[j])
    THEN [raised |-> TRUE, out |-> <<>>]
    ELSE [raised |-> FALSE, out |-> [j \in 1 .. Len(xy) |-> Transform(xy[j])]]

is_closed_lwpoly_le(closed, pts) ==
  \/ closed
  \/ /\ Len(pts) > 2
     /\ Abs(pts[1][1].c - pts[Len(pts)][1].c) <= Eps
     /\ Abs(pts[1][2].c - pts[Len(pts)][2].c) <= Eps

\* closed is lw.closed, pts the (x, y) of its vertices
is_closed_lwpoly(closed, pts) ==
  \/ closed
  \/ /\ Len(pts) > 2
     /\ Abs(pts[1][1].c - pts[Len(pts)][1].c) < Eps
     /\ Abs(pts[1][2].c - pts[Len(pts)][2].c) < Eps

\* end_angle after "if end_angle < start_angle: end_angle += 360.0"
normalized_end(start_angle, end_angle) ==
  IF end_angle < start_angle THEN end_angle + 360 ELSE end_angle

\* end_angle - start_angle, the numerator of step
sweep(start_angle, end_angle) ==
  normalized_end(start_angle, end_angle) - start_angle

arc_to_polyline_short(center, radius, start_angle, end_angle, segments) ==
  LET den == Max(1, segments)
      sw  == sweep(start_angle, end_angle)
  IN  [k \in 1 .. segments |->
         <<Trig(center[1], radius, "cos", start_angle * den + (k - 1) * sw, den),
           Trig(center[2], radius, "sin", start_angle * den + (k - 1) * sw, den)>>]

\* step = sw/den; vertex k (k = i + 1) lies at start_angle + i * step
arc_to_polyline(center, radius, start_angle, end_angle, segments) ==
  LET den == Max(1, segments)
      sw  == sweep(start_angle, end_angle)
  IN  [k \in 1 .. segments + 1 |->
         <<Trig(center[1], radius, "cos", start_angle * den + (k - 1) * sw, den),
           Trig(center[2], radius, "sin", start_angle * den + (k - 1) * sw, den)>>]

\* spline.point(j / segments), as (p[0], p[1])
SplinePoint(j, segments) ==
  LET t == Frac(j, segments)
  IN  <<[c |-> 0, r |-> 0, fn |-> "spline_x", num |-> t.num, den |-> t.den],
        [c |-> 0, r |-> 0, fn |-> "spline_y", num |-> t.num, den |-> t.den]>>

\* the comprehension over spline.point raises: division by zero, no evaluator,
\* or the evaluator fails at sample failAt
SamplingFails(evaluator, segments) ==
  \/ segments = 0
  \/ ~evaluator.avail
  \/ evaluator.failAt \in 0 .. segments

ControlPoints(cps) == [j \in 1 .. Len(cps) |-> <<Num(cps[j][1]), Num(cps[j][2])>>]

spline_to_polyline_partial(evaluator, cps, segments) ==
  IF SamplingFails(evaluator, segments)
    THEN IF segments > 0 /\ evaluator.avail
           THEN [j \in 1 .. evaluator.failAt |-> SplinePoint(j - 1, segments)]
                  \o ControlPoints(cps)
           ELSE ControlPoints(cps)
    ELSE [j \in 1 .. segments + 1 |-> SplinePoint(j - 1, segments)]

spline_to_polyline(evaluator, cps, segments) ==
  IF SamplingFails(evaluator, segments)
    THEN ControlPoints(cps)
    ELSE [j \in 1 .. segments + 1 |-> SplinePoint(j - 1, segments)]

(***************************************************************************)
(* Layer filter (src/app.py 106-109, 128-129).  A text is a sequence of    *)
(* one-character strings; a layer name likewise.                           *)
(***************************************************************************)
RECURSIVE lstrip(_)
lstrip(s) == IF s = <<>> \/ s[1] # " " THEN s ELSE lstrip(Tail(s))

RECURSIVE rstrip(_)
rstrip(s) ==
  IF s = <<>> \/ s[Len(s)] # " " THEN s ELSE rstrip(SubSeq(s, 1, Len(s) - 1))

\* str.strip()
strip(s) == rstrip(lstrip(s))

\* str.split(','), as the sequence of its items
RECURSIVE split(_)
split(s) ==
  IF \A j \in 1 .. Len(s) : s[j] # ","
    THEN <<s>>
    ELSE LET k == CHOOSE j \in 1 .. Len(s) :
                    s[j] = "," /\ \A m \in 1 .. j - 1 : s[m] # ","
         IN  <<SubSeq(s, 1, k - 1)>> \o split(SubSeq(s, k + 1, Len(s)))

None == [none |-> TRUE, names |-> {}]

\* the value of layer_whitelist after lines 107-109
make_whitelist(text) ==
  IF strip(text) # <<>>
    THEN [none |-> FALSE,
          names |-> {strip(split(text)[j]) : j \in
                       {m \in 1 .. Len(split(text)) : strip(split(text)[m]) # <<>>}}]
    ELSE None

layer_ok(ent_layer) == layer_whitelist.none \/ ent_layer \in layer_whitelist.names

(***************************************************************************)
(* Entities of the modelspace.  pts holds the entity's own points with     *)
(* their elevation: the location of a POINT, start and end of a LINE, the  *)
(* vertices of a polyline, the centre of a CIRCLE or ARC, the control      *)
(* points of a SPLINE.  broken: reading the geometry raises.               *)
(***************************************************************************)
NoEval == [avail |-> FALSE, failAt |-> -1]

Entity(kind, layer, pts) ==
  [kind |-> kind, layer |-> layer, pts |-> pts, closed |-> FALSE, radius |-> 0,
   start_angle |-> 0, end_angle |-> 0, evaluator |-> NoEval, broken |-> FALSE]

LX == <<"X">>
LY == <<"Y">>

Points ==
  {Entity("POINT", LX, <<<<1, 2, 5>>>>), Entity("POINT", LY, <<<<1, 2, 5>>>>),
   Entity("POINT", LX, <<<<4, 0, 0>>>>)}

Lines ==
  {Entity("LINE", LX, <<<<0, 0, 7>>, <<1, 1, 7>>>>),
   Entity("LINE", LX, <<<<0, 0, 0>>, <<4, 0, 0>>>>),
   [Entity("LINE", LX, <<>>) EXCEPT !.broken = TRUE]}

Pair == <<<<0, 0, 3>>, <<2, 0, 3>>>>

\* an open triangle: the ends differ by more than the tolerance
Open3 == <<<<0, 0, 3>>, <<3, 0, 3>>, <<0, 3, 3>>>>

\* the ends differ by less than the tolerance in x and in y
Near3 == <<<<0, 0, 3>>, <<3, 0, 3>>, <<1, 1, 3>>>>

Poly(kind, pts, closed) == [Entity(kind, LX, pts) EXCEPT !.closed = closed]

LWPolylines ==
  {Poly("LWPOLYLINE", <<>>, FALSE), Poly("LWPOLYLINE", Pair, FALSE),
   Poly("LWPOLYLINE", Pair, TRUE), Poly("LWPOLYLINE", Open3, FALSE),
   Poly("LWPOLYLINE", Open3, TRUE), Poly("LWPOLYLINE", Near3, FALSE)}

Polylines ==
  {Poly("POLYLINE", Pair, TRUE), Poly("POLYLINE", Open3, FALSE),
   Poly("POLYLINE", Open3, TRUE), Poly("POLYLINE", Near3, FALSE)}

Circles ==
  {[Entity("CIRCLE", l, <<<<1, 1, 2>>>>) EXCEPT !.radius = 1] : l \in {LX, LY}}

Arcs ==
  {[Entity("ARC", LX, <<<<0, 0, 2>>>>) EXCEPT
      !.radius = 1, !.start_angle = a[1], !.end_angle = a[2]] :
     a \in {<<350, 10>>, <<0, 360>>}}

Splines ==
  {[Entity("SPLINE", LX, <<<<0, 0, 1>>, <<1, 2, 1>>, <<3, 0, 1>>>>) EXCEPT
      !.evaluator = ev] :
     ev \in {NoEval, [avail |-> TRUE, failAt |-> -1]}}

Others == {Entity("TEXT", LX, <<<<0, 0, 0>>>>)}

Entities ==
  Points \cup Lines \cup LWPolylines \cup Polylines \cup Circles \cup Arcs
    \cup Splines \cup Others

Texts ==
  {<<>>, <<" ">>, <<"X">>, <<"x">>, <<",">>, <<" ", "X", " ", ",", ",", "Y">>}

SliderMin == 12

ApproxSegments == {SliderMin}

(***************************************************************************)
(* The branches of the entity loop (src/app.py 134-197).  Each yields what *)
(* the try block did: raised, or the feature added and the counter bumped. *)
(***************************************************************************)
Raised == [raised |-> TRUE, feat |-> <<>>, key |-> "none"]

Nothing == [raised |-> FALSE, feat |-> <<>>, key |-> "none"]

Added(geom, tag, layer, coords, key) ==
  [raised |-> FALSE,
   feat |-> <<[geom |-> geom, tag |-> tag, layer |-> layer, coords |-> coords]>>,
   key |-> key]

XY(pts) == [j \in 1 .. Len(pts) |-> <<Num(pts[j][1]), Num(pts[j][2])>>]

\* [(lon, lat, 0.0) for lon, lat in coords]
Flat(coords) == [j \in 1 .. Len(coords) |-> <<coords[j][1], coords[j][2], 0>>]

PointBranch(e) ==
  IF e.broken THEN Raised
  ELSE LET p == XY(e.pts)[1]
       IN  IF TransformFails(p) THEN Raised
           ELSE Added("Point", "POINT", e.layer,
                      <<<<Transform(p)[1], Transform(p)[2], e.pts[1][3]>>>>, "points")

LineBranch(e) ==
  IF e.broken THEN Raised
  ELSE LET t == transform_xy_list(XY(e.pts))
       IN  IF t.raised THEN Raised
           ELSE Added("LineString", "LINE", e.layer, Flat(t.out), "lines")

LWPolylineBranch_NoSize(e) ==
  IF e.broken THEN Raised
  ELSE LET t == transform_xy_list(XY(e.pts))
       IN  IF t.raised THEN Raised
           ELSE IF is_closed_lwpoly(e.closed, XY(e.pts))
                  THEN Added("Polygon", "POLY", e.layer, Flat(t.out), "polygons")
                  ELSE Added("LineString", "LWPOLY", e.layer, Flat(t.out), "polylines")

LWPolylineBranch(e) ==
  IF e.broken THEN Raised
  ELSE LET t == transform_xy_list(XY(e.pts))
       IN  IF t.raised THEN Raised
           ELSE IF is_closed_lwpoly(e.closed, XY(e.pts)) /\ Len(t.out) >= 3
                  THEN Added("Polygon", "POLY", e.layer, Flat(t.out), "polygons")
                  ELSE Added("LineString", "LWPOLY", e.layer, Flat(t.out), "polylines")

PolylineBranch(e) ==
  IF e.broken THEN Raised
  ELSE LET t == transform_xy_list(XY(e.pts))
       IN  IF t.raised THEN Raised
           ELSE IF e.closed /\ Len(t.out) >= 3
                  THEN Added("Polygon", "POLY", e.layer, Flat(t.out), "polygons")
                  ELSE Added("LineString", "POLYLINE", e.layer, Flat(t.out), "polylines")

CircleBranch_Ring(e) ==
  IF e.broken THEN Raised
  ELSE LET t == transform_xy_list(
                  arc_to_polyline(e.pts[1], e.radius, 0, 360, approx_segments))
       IN  IF t.raised THEN Raised
           ELSE Added("Polygon", "CIRCLE", e.layer, Flat(t.out), "polygons")

CircleBranch(e) ==
  IF e.broken THEN Raised
  ELSE LET t == transform_xy_list(
                  arc_to_polyline(e.pts[1], e.radius, 0, 360, approx_segments))
       IN  IF t.raised THEN Raised
           ELSE Added("LineString", "CIRCLE", e.layer, Flat(t.out), "polylines")

ArcBranch_Lines(e) ==
  IF e.broken THEN Raised
  ELSE LET t == transform_xy_list(
                  arc_to_polyline(e.pts[1], e.radius, e.start_angle, e.end_angle,
                                  approx_segments))
       IN  IF t.raised THEN Raised
           ELSE Added("LineString", "ARC", e.layer, Flat(t.out), "lines")

ArcBranch(e) ==
  IF e.broken THEN Raised
  ELSE LET t == transform_xy_list(
                  arc_to_polyline(e.pts[1], e.radius, e.start_angle, e.end_angle,
                                  approx_segments))
       IN  IF t.raised THEN Raised
           ELSE Added("LineString", "ARC", e.layer, Flat(t.out), "polylines")

SplineBranch(e) ==
  IF e.broken THEN Raised
  ELSE LET t == transform_xy_list(
                  spline_to_polyline(e.evaluator, e.pts, approx_segments))
       IN  IF t.raised THEN Raised
           ELSE Added("LineString", "SPLINE", e.layer, Flat(t.out), "polylines")

\* the if/elif chain of the try block
Body(e) ==
  IF e.kind = "POINT" /\ layer_ok(e.layer) THEN PointBranch(e)
  ELSE IF e.kind = "LINE" /\ layer_ok(e.layer) THEN LineBranch(e)
  ELSE IF e.kind = "LWPOLYLINE" /\ layer_ok(e.layer) THEN LWPolylineBranch(e)
  ELSE IF e.kind = "POLYLINE" /\ layer_ok(e.layer) THEN PolylineBranch(e)
  ELSE IF e.kind = "CIRCLE" /\ layer_ok(e.layer) THEN CircleBranch(e)
  ELSE IF e.kind = "ARC" /\ layer_ok(e.layer) THEN ArcBranch(e)
  ELSE IF e.kind = "SPLINE" /\ layer_ok(e.layer) THEN SplineBranch(e)
  ELSE Nothing

\* where the loop goes after "except Exception": on to the next entity
AfterExcept_Abort == "aborted"

AfterExcept == "loop"

(***************************************************************************)
(* The run (src/app.py 106-214)                                            *)
(***************************************************************************)
NoCall == [fn |-> "none"]

Init ==
  /\ include_layers \in Texts
  /\ approx_segments \in ApproxSegments
  /\ msp \in UNION {[1 .. n -> Entities] : n \in 0 .. MaxEntities}
  /\ layer_whitelist = None
  /\ i = 0
  /\ kml = <<>>
  /\ count = [points |-> 0, lines |-> 0, polylines |-> 0, polygons |-> 0]
  /\ skipped = <<>>
  /\ pc = "filter"
  /\ details = [all |-> TRUE, names |-> {}]
  /\ call = NoCall

\* lines 106-109
SetupFilter ==
  /\ pc = "filter"
  /\ layer_whitelist' = make_whitelist(include_layers)
  /\ pc' = "loop"
  /\ UNCHANGED <<include_layers, approx_segments, msp, i, kml, count, skipped,
                 details, call>>

\* one iteration of "for e in msp", lines 132-200; a feature carries the
\* position src of its entity in msp
Iterate ==
  /\ pc = "loop"
  /\ i < Len(msp)
  /\ LET out == Body(msp[i + 1])
     IN  /\ kml' = kml \o [j \in 1 .. Len(out.feat) |->
                            [src |-> i + 1, geom |-> out.feat[j].geom,
                             tag |-> out.feat[j].tag, layer |-> out.feat[j].layer,
                             coords |-> out.feat[j].coords]]
         /\ count' = IF out.key = "none" THEN count
                     ELSE [count EXCEPT ![out.key] = @ + 1]
         /\ skipped' = IF out.raised THEN Append(skipped, i + 1) ELSE skipped
         /\ pc' = IF out.raised THEN AfterExcept ELSE "loop"
  /\ i' = i + 1
  /\ UNCHANGED <<include_layers, approx_segments, msp, layer_whitelist, details, call>>

Kind(k) == pc = "loop" /\ i < Len(msp) /\ msp[i + 1].kind = k

ProcessPoint == Kind("POINT") /\ Iterate

ProcessLine == Kind("LINE") /\ Iterate

ProcessLWPolyline == Kind("LWPOLYLINE") /\ Iterate

ProcessPolyline == Kind("POLYLINE") /\ Iterate

ProcessCircle == Kind("CIRCLE") /\ Iterate

ProcessArc == Kind("ARC") /\ Iterate

ProcessSpline == Kind("SPLINE") /\ Iterate

ProcessOther == Kind("TEXT") /\ Iterate

\* lines 203-214: the loop is exhausted; the details report the layer filter
Finish ==
  /\ pc = "loop"
  /\ i = Len(msp)
  /\ pc' = "done"
  /\ details' = IF ~layer_whitelist.none /\ layer_whitelist.names # {}
                  THEN [all |-> FALSE, names |-> layer_whitelist.names]
                  ELSE [all |-> TRUE, names |-> {}]
  /\ UNCHANGED <<include_layers, approx_segments, msp, layer_whitelist, i, kml,
                 count, skipped, call>>

Next ==
  \/ SetupFilter
  \/ ProcessPoint
  \/ ProcessLine
  \/ ProcessLWPolyline
  \/ ProcessPolyline
  \/ ProcessCircle
  \/ ProcessArc
  \/ ProcessSpline
  \/ ProcessOther
  \/ Finish

Spec == Init /\ [][Next]_vars

(***************************************************************************)
(* The helpers called on their own, once: call holds the call, its         *)
(* arguments and what it returned.                                         *)
(***************************************************************************)
Grid == {<<Num(x), Num(y)>> : x \in 0 .. 2, y \in 0 .. 2}

SeqsUpTo(S, n) == UNION {[1 .. m -> S] : m \in 0 .. n}

Angles == {-400, 0, 10, 90, 350, 360, 400}

Centers == {<<0, 0>>, <<100, 100>>}

Evaluators == {[avail |-> a, failAt |-> f] : a \in BOOLEAN, f \in -1 .. MaxSeg}

InitFn ==
  /\ include_layers = <<>>
  /\ approx_segments = SliderMin
  /\ msp = <<>>
  /\ layer_whitelist = None
  /\ i = 0
  /\ kml = <<>>
  /\ count = [points |-> 0, lines |-> 0, polylines |-> 0, polygons |-> 0]
  /\ skipped = <<>>
  /\ pc = "call"
  /\ details = [all |-> TRUE, names |-> {}]
  /\ call = NoCall

CallIsClosed ==
  /\ pc = "call"
  /\ \E closed \in BOOLEAN, pts \in SeqsUpTo(Grid, MaxVerts) :
       call' = [fn |-> "is_closed_lwpoly", closed |-> closed, pts |-> pts,
                result |-> is_closed_lwpoly(closed, pts)]
  /\ pc' = "returned"
  /\ UNCHANGED runVars

CallArc ==
  /\ pc = "call"
  /\ \E center \in Centers, start_angle \in Angles, end_angle \in Angles,
        segments \in 0 .. MaxSeg :
       call' = [fn |-> "arc_to_polyline", center |-> center, radius |-> 5,
                start_angle |-> start_angle, end_angle |-> end_angle,
                segments |-> segments,
                sweep |-> sweep(start_angle, end_angle),
                result |-> arc_to_polyline(center, 5, start_angle, end_angle, segments)]
  /\ pc' = "returned"
  /\ UNCHANGED runVars

CallSpline ==
  /\ pc = "call"
  /\ \E ev \in Evaluators, cps \in SeqsUpTo({<<0, 0, 1>>, <<1, 2, 1>>}, MaxVerts),
        segments \in 0 .. MaxSeg :
       call' = [fn |-> "spline_to_polyline", evaluator |-> ev, cps |-> cps,
                segments |-> segments,
                result |-> spline_to_polyline(ev, cps, segments)]
  /\ pc' = "returned"
  /\ UNCHANGED runVars

NextFn == CallIsClosed \/ CallArc \/ CallSpline

SpecFn == InitFn /\ [][NextFn]_vars

(***************************************************************************)
(* Properties                                                              *)
(***************************************************************************)
\* the features the entity at position k of msp produced
FeaturesOf(k) == {j \in 1 .. Len(kml) : kml[j].src = k}

AllowList(text) == {strip(split(text)[j]) : j \in 1 .. Len(split(text))} \ {<<>>}

Supported ==
  {"POINT", "LINE", "LWPOLYLINE", "POLYLINE", "CIRCLE", "ARC", "SPLINE"}

\* the entity at position k entered its branch: it left a feature or a warning
Entered(k) == FeaturesOf(k) # {} \/ \E j \in 1 .. Len(skipped) : skipped[j] = k

\* C2 as stated: an entity is processed if and only if the allow-list of the
\* filter text is empty or contains the entity's layer name exactly.
C2_LayerFilter ==
  \A k \in 1 .. i :
    msp[k].kind \in Supported =>
      (Entered(k) <=> (AllowList(include_layers) = {}
                         \/ msp[k].layer \in AllowList(include_layers)))

\* the try block raises on this entity
Fails(e) == Body(e).raised

Survives(e) == ~Fails(e)

RECURSIVE FeaturesAlone(_)
FeaturesAlone(es) ==
  IF es = <<>> THEN <<>> ELSE Body(Head(es)).feat \o FeaturesAlone(Tail(es))

RECURSIVE CountAlone(_, _)
CountAlone(es, key) ==
  IF es = <<>> THEN 0
  ELSE (IF Body(Head(es)).key = key THEN 1 ELSE 0) + CountAlone(Tail(es), key)

Unsourced(f) == [geom |-> f.geom, tag |-> f.tag, layer |-> f.layer, coords |-> f.coords]

\* C3: processing is isolated per entity.  The loop never stops at a failing
\* entity (it ends only with every entity visited); the features and the
\* counters after any prefix of the entities are those of the same prefix with
\* its failing entities removed; a failing entity has no feature.
C3_Isolation ==
  LET clean == SelectSeq(SubSeq(msp, 1, i), Survives)
  IN  /\ pc \in {"filter", "loop", "done"}
      /\ pc = "done" => i = Len(msp)
      /\ [j \in 1 .. Len(kml) |-> Unsourced(kml[j])] = FeaturesAlone(clean)
      /\ \A key \in DOMAIN count : count[key] = CountAlone(clean, key)
      /\ \A k \in 1 .. i : Fails(msp[k]) => FeaturesOf(k) = {}

C3_Witness ==
  \E k \in 1 .. i :
    /\ Fails(msp[k])
    /\ \E m \in k + 1 .. i : FeaturesOf(m) # {}

\* the closure class of a polyline entity per the dispatch table: the flag, or
\* for the flag-based LWPolyline coinciding ends of more than 2 vertices
RingClass(e) ==
  \/ e.closed
  \/ /\ e.kind = "LWPOLYLINE"
     /\ Len(e.pts) > 2
     /\ Abs(e.pts[1][1] - e.pts[Len(e.pts)][1]) < Eps
     /\ Abs(e.pts[1][2] - e.pts[Len(e.pts)][2]) < Eps

\* C4: a polyline entity (LWPolyline or Polyline) is emitted as a Polygon if
\* and only if its vertex sequence is classified as a ring and has at least 3
\* vertices after reprojection; otherwise as a LineString.
C4_PolygonIffRing ==
  \A j \in 1 .. Len(kml) :
    LET e == msp[kml[j].src]
    IN  e.kind \in {"LWPOLYLINE", "POLYLINE"} =>
          IF RingClass(e) /\ Len(kml[j].coords) >= 3
            THEN kml[j].geom = "Polygon"
            ELSE kml[j].geom = "LineString"

C4_Witness ==
  /\ \E j \in 1 .. Len(kml) :
       /\ msp[kml[j].src].kind \in {"LWPOLYLINE", "POLYLINE"}
       /\ msp[kml[j].src].closed
       /\ Len(kml[j].coords) = 2
       /\ kml[j].geom = "LineString"
  /\ \E j \in 1 .. Len(kml) :
       /\ msp[kml[j].src].kind = "LWPOLYLINE"
       /\ ~msp[kml[j].src].closed
       /\ kml[j].geom = "Polygon"

\* C5: is_ring(true, seq) is true for every seq; is_ring(false, seq) is true
\* if and only if seq has more than 2 vertices and the x and the y of its first
\* and last vertices differ by less than the tolerance.
C5_IsRing ==
  call.fn = "is_closed_lwpoly" =>
    LET n == Len(call.pts)
    IN  IF call.closed THEN call.result = TRUE
        ELSE call.result <=>
               /\ n > 2
               /\ Abs(call.pts[1][1].c - call.pts[n][1].c) < Eps
               /\ Abs(call.pts[1][2].c - call.pts[n][2].c) < Eps

C5_Witness ==
  /\ call.fn = "is_closed_lwpoly"
  /\ ~call.closed
  /\ Len(call.pts) = 3
  /\ call.pts[1] # call.pts[3]
  /\ call.result = TRUE

\* C6 as stated: for any start and end angle the sweep used for flattening
\* is never negative, and when end < start it equals end + 360 - start.
C6_SweepNonNegative ==
  call.fn = "arc_to_polyline" =>
    /\ call.sweep >= 0
    /\ call.end_angle < call.start_angle
         => call.sweep = call.end_angle + 360 - call.start_angle

\* the point of the circle at the angle num/den degrees
PointAt(center, radius, num, den) ==
  <<Trig(center[1], radius, "cos", num, den),
    Trig(center[2], radius, "sin", num, den)>>

\* C7: for segments >= 1 flattening returns segments + 1 vertices, vertex j
\* at angle start + j * (end - start) / segments (end normalized), the first
\* at the start angle, the last at the end angle; a full circle closes itself.
C7_Flatten ==
  (call.fn = "arc_to_polyline" /\ call.segments >= 1) =>
    LET n    == call.segments
        s    == call.start_angle
        nend == IF call.end_angle < s THEN call.end_angle + 360 ELSE call.end_angle
    IN  /\ Len(call.result) = n + 1
        /\ \A j \in 0 .. n :
             call.result[j + 1]
               = PointAt(call.center, call.radius, s * n + j * (nend - s), n)
        /\ call.result[1] = PointAt(call.center, call.radius, s, 1)
        /\ call.result[n + 1] = PointAt(call.center, call.radius, nend, 1)
        /\ (s = 0 /\ call.end_angle = 360) => call.result[1] = call.result[n + 1]

C7_Witness ==
  /\ call.fn = "arc_to_polyline"
  /\ call.start_angle = 0
  /\ call.end_angle = 360
  /\ call.segments = 4
  /\ Len(call.result) = 5
  /\ call.result[1] = call.result[5]
  /\ call.result[1] # call.result[2]

\* the (x, y) sequence the branch of entity e hands to the reprojection
SourceXY(e) ==
  IF e.kind = "CIRCLE"
    THEN arc_to_polyline(e.pts[1], e.radius, 0, 360, approx_segments)
  ELSE IF e.kind = "ARC"
    THEN arc_to_polyline(e.pts[1], e.radius, e.start_angle, e.end_angle,
                         approx_segments)
  ELSE IF e.kind = "SPLINE"
    THEN spline_to_polyline(e.evaluator, e.pts, approx_segments)
  ELSE XY(e.pts)

\* C8 as stated, on the entities whose vertices are their own points: the
\* emitted sequence has the length of the source and every emitted vertex
\* carries the elevation of its source vertex.
C8_ElevationKept ==
  \A j \in 1 .. Len(kml) :
    LET e == msp[kml[j].src]
    IN  e.kind \in {"POINT", "LINE", "LWPOLYLINE", "POLYLINE"} =>
          /\ Len(kml[j].coords) = Len(e.pts)
          /\ \A m \in 1 .. Len(e.pts) : kml[j].coords[m][3] = e.pts[m][3]

\* C8 amended: reprojection returns a sequence of the same length in the same
\* order (the empty one included), the projection applied to each vertex's
\* (x, y) on its own; the elevation of a Point entity passes through unchanged,
\* and every vertex of every other entity kind is emitted with elevation 0.
C8_Reprojection ==
  \A j \in 1 .. Len(kml) :
    LET e  == msp[kml[j].src]
        xy == SourceXY(e)
    IN  /\ Len(kml[j].coords) = Len(xy)
        /\ \A m \in 1 .. Len(xy) :
             /\ kml[j].coords[m][1] = Transform(xy[m])[1]
             /\ kml[j].coords[m][2] = Transform(xy[m])[2]
             /\ kml[j].coords[m][3] = IF e.kind = "POINT" THEN e.pts[m][3] ELSE 0

C8_Witness ==
  /\ \E j \in 1 .. Len(kml) :
       /\ kml[j].tag = "LINE"
       /\ msp[kml[j].src].pts[2][3] # 0
       /\ kml[j].coords[2][3] = 0
       /\ kml[j].coords[1] # kml[j].coords[2]
  /\ \E j \in 1 .. Len(kml) : kml[j].coords = <<>>

\* C9: when the evaluator succeeds for all samples the result is the
\* segments + 1 points sampled at t = j/segments; when it is unavailable or
\* fails at any sample the result is exactly the control points in order; the
\* result is non-empty whenever control points exist.
C9_SplineFallback ==
  (call.fn = "spline_to_polyline" /\ call.segments >= 1) =>
    LET n  == call.segments
        ok == call.evaluator.avail /\ call.evaluator.failAt \notin 0 .. n
    IN  /\ ok => /\ Len(call.result) = n + 1
                 /\ \A j \in 0 .. n : call.result[j + 1] = SplinePoint(j, n)
        /\ ~ok => /\ Len(call.result) = Len(call.cps)
                  /\ \A j \in 1 .. Len(call.cps) :
                       call.result[j] = <<Num(call.cps[j][1]), Num(call.cps[j][2])>>
        /\ call.cps # <<>> => call.result # <<>>

C9_Witness ==
  /\ call.fn = "spline_to_polyline"
  /\ call.segments = 4
  /\ call.evaluator.avail
  /\ call.evaluator.failAt = 2
  /\ Len(call.cps) = 2
  /\ Len(call.result) = 2

\* C10: each counter equals the number of features of its kind emitted so
\* far, every entity has produced at most one feature, and the features are in
\* the order of their source entities.
C10_Counters ==
  /\ count.points = Cardinality({j \in 1 .. Len(kml) : kml[j].geom = "Point"})
  /\ count.lines = Cardinality({j \in 1 .. Len(kml) : kml[j].tag = "LINE"})
  /\ count.polylines =
       Cardinality({j \in 1 .. Len(kml) :
                      kml[j].geom = "LineString" /\ kml[j].tag # "LINE"})
  /\ count.polygons = Cardinality({j \in 1 .. Len(kml) : kml[j].geom = "Polygon"})
  /\ \A k \in 1 .. Len(msp) : Cardinality(FeaturesOf(k)) <= 1
  /\ \A j \in 1 .. Len(kml) : kml[j].src \in 1 .. i
  /\ \A j \in 1 .. Len(kml) - 1 : kml[j].src < kml[j + 1].src

C10_Witness ==
  /\ pc = "done"
  /\ Len(kml) = 2
  /\ count.polylines = 1
  /\ count.polygons = 1
  /\ kml[1].tag = "ARC"

====
